---- MODULE Spec2Model ----
(***************************************************************************)
(* A model of the schemawax decoder combinators (src/src/index.ts).        *)
(*                                                                         *)
(* JavaScript values are tagged records.  A JavaScript string is a         *)
(* sequence of pieces: text that comes from the data (string values,       *)
(* object keys, digits) is held one character per piece, and the fixed     *)
(* fragments of the source's template strings are one piece each, so that  *)
(* string concatenation is sequence concatenation.                         *)
(*                                                                         *)
(* A decoder is a record describing how it was constructed; forceDecode    *)
(* interprets it on a datum.  An evaluation threads a record st holding    *)
(* the log of invocations (calls) and the lastIndex of every RegExp        *)
(* object, and yields [out |-> outcome, st |-> st'] where the outcome is   *)
(* a returned value or a thrown error.                                     *)
(***************************************************************************)
EXTENDS Integers, Sequences, FiniteSets, TLC

\* How many combinators the schema under test may be wrapped in.
MaxWrap == 2

\* subject: the decoder under test; input: the datum it is given; wraps: the
\* combinators subject was wrapped in, outermost first; method, result, calls:
\* the last method called on subject, its outcome and the invocations it made;
\* lastIndex: the lastIndex property of every RegExp object; stack: how many
\* nested calls the host allows (limit) and how many the last method nested
\* (deepest)
VARIABLES subject, input, wraps, method, result, calls, lastIndex, stack

vars == <<subject, input, wraps, method, result, calls, lastIndex, stack>>

---------------------------------------------------------------------------
\* JavaScript values

Undefined == [k |-> "undefined"]

Null == [k |-> "null"]

Bool(b) == [k |-> "boolean", b |-> b]

\* cls is "finite", "NaN", "Infinity" or "-Infinity"; n is the value when finite
Num(n) == [k |-> "number", cls |-> "finite", n |-> n]

NaN == [k |-> "number", cls |-> "NaN", n |-> 0]

Infinity == [k |-> "number", cls |-> "Infinity", n |-> 0]

NegInfinity == [k |-> "number", cls |-> "-Infinity", n |-> 0]

Str(s) == [k |-> "string", s |-> s]

Arr(items) == [k |-> "array", items |-> items]

\* entries: sequence of [key, value] in insertion order, keys distinct strings
Obj(entries) == [k |-> "object", entries |-> entries]

Entry(key, value) == [key |-> key, value |-> value]

\* the typeof operator
TypeOf(v) ==
    CASE v.k = "undefined" -> "undefined"
      [] v.k = "boolean" -> "boolean"
      [] v.k = "number" -> "number"
      [] v.k = "string" -> "string"
      [] OTHER -> "object"

\* the === operator (NaN is not equal to itself; containers compare by identity,
\* and a container of the input is never identical to a literal)
StrictEquals(a, b) ==
    /\ a.k = b.k
    /\ a.k \in {"undefined", "null", "boolean", "number", "string"}
    /\ (a.k = "number" => a.cls # "NaN" /\ b.cls # "NaN")
    /\ a = b

\* data[key] on an object: the value of the entry, undefined when there is none
Get(obj, key) ==
    LET hits == {i \in 1..Len(obj.entries) : obj.entries[i].key = key}
    IN  IF hits = {} THEN Undefined ELSE obj.entries[CHOOSE i \in hits : TRUE].value

---------------------------------------------------------------------------
\* Text

RECURSIVE Concat(_)
\* the concatenation of a sequence of strings, by halves
Concat(ss) ==
    IF ss = <<>> THEN <<>>
    ELSE IF Len(ss) = 1 THEN ss[1]
    ELSE LET half == Len(ss) \div 2
         IN  Concat(SubSeq(ss, 1, half)) \o Concat(SubSeq(ss, half + 1, Len(ss)))

Digit(n) ==
    CASE n = 0 -> "0" [] n = 1 -> "1" [] n = 2 -> "2" [] n = 3 -> "3" [] n = 4 -> "4"
      [] n = 5 -> "5" [] n = 6 -> "6" [] n = 7 -> "7" [] n = 8 -> "8" [] n = 9 -> "9"

RECURSIVE Decimal(_)
\* Number.prototype.toString of a non-negative integer
Decimal(n) ==
    IF n < 10 THEN <<Digit(n)>> ELSE Decimal(n \div 10) \o <<Digit(n % 10)>>

\* Number.prototype.toString
NumberToString(v) ==
    CASE v.cls = "NaN" -> <<"NaN">>
      [] v.cls = "Infinity" -> <<"Infinity">>
      [] v.cls = "-Infinity" -> <<"-Infinity">>
      [] OTHER -> IF v.n < 0 THEN <<"-">> \o Decimal(-v.n) ELSE Decimal(v.n)

Spaces(n) == [i \in 1..n |-> " "]

\* the JSON escape of one piece of a string
EscapePiece(c) ==
    CASE c = "\"" -> <<"\\", "\"">>
      [] c = "\\" -> <<"\\", "\\">>
      [] c = "\n" -> <<"\\", "n">>
      [] OTHER -> <<c>>

\* JSON.stringify of a string: quoted, with quotes, backslashes and newlines escaped
Quote(s) ==
    <<"\"">> \o Concat([i \in 1..Len(s) |-> EscapePiece(s[i])]) \o <<"\"">>

RECURSIVE JoinLines(_, _)
\* the members of a JSON container, each on its own line at the given indentation
JoinLines(members, indent) ==
    IF members = <<>> THEN <<>>
    ELSE <<"\n">> \o Spaces(indent) \o Head(members)
         \o (IF Len(members) > 1 THEN <<",">> ELSE <<>>)
         \o JoinLines(Tail(members), indent)

RECURSIVE Stringify(_, _)
\* JSON.stringify(data, null, 2) at the given indentation; undefined as a member
\* of an array is written null, and an object's undefined members are left out
Stringify(v, indent) ==
    CASE v.k = "undefined" -> <<"undefined">>
      [] v.k = "null" -> <<"null">>
      [] v.k = "boolean" -> IF v.b THEN <<"true">> ELSE <<"false">>
      [] v.k = "number" -> IF v.cls = "finite" THEN NumberToString(v) ELSE <<"null">>
      [] v.k = "string" -> Quote(v.s)
      [] v.k = "array" ->
           IF v.items = <<>> THEN <<"[", "]">>
           ELSE <<"[">>
                \o JoinLines([i \in 1..Len(v.items) |->
                       IF v.items[i].k = "undefined" THEN <<"null">>
                       ELSE Stringify(v.items[i], indent + 2)], indent + 2)
                \o <<"\n">> \o Spaces(indent) \o <<"]">>
      [] v.k = "object" ->
           LET kept == SelectSeq(v.entries, LAMBDA e : e.value.k # "undefined")
           IN  IF kept = <<>> THEN <<"{", "}">>
               ELSE <<"{">>
                    \o JoinLines([i \in 1..Len(kept) |->
                           Quote(kept[i].key) \o <<":", " ">>
                           \o Stringify(kept[i].value, indent + 2)], indent + 2)
                    \o <<"\n">> \o Spaces(indent) \o <<"}">>

\* show, as interpolated into a template string
show(v) == Stringify(v, 0)

---------------------------------------------------------------------------
\* Outcomes and errors

Return(v) == [type |-> "return", value |-> v]

Throw(e) == [type |-> "throw", error |-> e]

\* DecoderError with one rule for every non-empty path: the first segment, ": "
DecoderError_alwaysColon(message, path) ==
    [name |-> "DecoderError",
     path |-> path,
     message |-> IF Len(path) >= 1 THEN path[1] \o <<":", " ">> \o message ELSE message]

\* class DecoderError: the constructor rewrites the message from the path
DecoderError(message, path) ==
    [name |-> "DecoderError",
     path |-> path,
     message |-> IF Len(path) = 1 THEN path[1] \o <<":", " ">> \o message
                 ELSE IF Len(path) > 1 THEN path[1] \o <<".">> \o message
                 ELSE message]

\* an error of another class, as a transformer or the host may throw
TypeError(message) == [name |-> "TypeError", message |-> message]

\* what the host throws when a call would nest deeper than its stack allows
RangeError(message) == [name |-> "RangeError", message |-> message]

\* e instanceof DecoderError
IsDecoderError(e) == "name" \in DOMAIN e /\ e.name = "DecoderError"

\* e.message for a thrown e, which may be an error object or any value:
\* reading a property of null or undefined throws a TypeError
MessageOf(e) ==
    IF "name" \in DOMAIN e THEN Return(Str(e.message))
    ELSE IF e.k \in {"undefined", "null"}
         THEN Throw(TypeError(<<"Cannot read properties of ">> \o show(e)))
    ELSE IF e.k = "object" THEN Return(Get(e, <<"m", "e", "s", "s", "a", "g", "e">>))
    ELSE Return(Undefined)

\* the evaluation state with one more logged invocation
Log(st, entry) == [st EXCEPT !.calls = Append(@, entry)]

---------------------------------------------------------------------------
\* Decoders as constructed values

\* primitiveDecoder(dataType, condition)
primitiveDecoder(dataType, condition) ==
    [d |-> "primitive", dataType |-> dataType, condition |-> condition]

unknown == [d |-> "unknown"]

null_ == [d |-> "null"]

string == primitiveDecoder(<<"a string">>, "isString")

number == primitiveDecoder(<<"a number">>, "isFiniteNumber")

boolean == primitiveDecoder(<<"a boolean">>, "isBoolean")

succeed(value) == [d |-> "succeed", value |-> value]

literal(v) == [d |-> "literal", literal |-> v]

oneOf(decoders) == [d |-> "oneOf", decoders |-> decoders]

nullable(decoder) == oneOf(<<decoder, null_>>)

literalUnion(values) == oneOf([i \in 1..Len(values) |-> literal(values[i])])

\* the method andThen of a decoder
andThen(decoder, transformer) ==
    [d |-> "andThen", decoder |-> decoder, transformer |-> transformer]

\* the transformer of regex: data => { if (!regex.test(data)) throw ...; return data }
regexTransformer(re) == [f |-> "regexTest", regex |-> re]

regex(re) == andThen(string, regexTransformer(re))

array(decoder) == [d |-> "array", decoder |-> decoder]

tuple(decoders) == [d |-> "tuple", decoders |-> decoders]

record(decoder) == [d |-> "record", decoder |-> decoder]

keyValuePairs(decoder) == [d |-> "keyValuePairs", decoder |-> decoder]

\* struct: sequence of [key, decoder] in the order for-in enumerates it
required(struct) == [d |-> "required", struct |-> struct]

partial(struct) == [d |-> "partial", struct |-> struct]

\* struct: a record with the fields required and optional, either may be missing
object(struct) == [d |-> "object", struct |-> struct]

\* supplier: the name of a function returning a decoder (see Supplier)
recursive(supplier) == [d |-> "recursive", supplier |-> supplier]

Field(key, decoder) == [key |-> key, decoder |-> decoder]

---------------------------------------------------------------------------
\* Helpers of the decoders

\* checkDefined: throws if data is null or undefined
checkDefined(data) ==
    IF data.k \in {"null", "undefined"}
    THEN Throw(DecoderError(<<"This value is not there">>, <<>>))
    ELSE Return(Bool(FALSE))

\* the conditions without Number.isFinite
Condition_anyNumber(condition, data) ==
    CASE condition = "isString" -> TypeOf(data) = "string"
      [] condition = "isFiniteNumber" -> TypeOf(data) = "number"
      [] condition = "isBoolean" -> TypeOf(data) = "boolean"

\* the conditions handed to primitiveDecoder
Condition(condition, data) ==
    CASE condition = "isString" -> TypeOf(data) = "string"
      [] condition = "isFiniteNumber" -> TypeOf(data) = "number" /\ data.cls = "finite"
      [] condition = "isBoolean" -> TypeOf(data) = "boolean"

\* checkArrayType: throws unless Array.isArray(data)
checkArrayType(data) ==
    IF data.k # "array"
    THEN Throw(DecoderError(<<"This is not an array: ">> \o show(data), <<>>))
    ELSE Return(Undefined)

\* checkDictType: throws unless data is a non-null, non-array object; Object.keys
\* yields strings only, so its second test never fires
checkDictType(data) ==
    IF TypeOf(data) # "object" \/ data.k = "null" \/ data.k = "array"
    THEN Throw(DecoderError(<<"This is not an object: ">> \o show(data), <<>>))
    ELSE IF \E i \in 1..Len(data.entries) : TypeOf(Str(data.entries[i].key)) # "string"
    THEN Throw(DecoderError(<<"Not all keys in this object are strings: ">> \o show(data), <<>>))
    ELSE Return(Undefined)

\* String(v) of a string, number or boolean, as a template string interpolates it
Interpolate(v) ==
    CASE v.k = "string" -> v.s
      [] v.k = "number" -> NumberToString(v)
      [] v.k = "boolean" -> IF v.b THEN <<"true">> ELSE <<"false">>

\* Object.assign(target, source): source's members overwrite or are appended
RECURSIVE Assign(_, _)
Assign(target, source) ==
    IF source.entries = <<>> THEN target
    ELSE LET e == Head(source.entries)
             hits == {i \in 1..Len(target.entries) : target.entries[i].key = e.key}
             put == IF hits = {} THEN Obj(Append(target.entries, e))
                    ELSE Obj([i \in 1..Len(target.entries) |->
                                 IF i \in hits THEN e ELSE target.entries[i]])
         IN  Assign(put, Obj(Tail(source.entries)))

\* Object.keys in place of Object.entries
Entries_keysOnly(obj) ==
    Arr([i \in 1..Len(obj.entries) |-> Str(obj.entries[i].key)])

\* Object.entries(obj) as a value: the array of [key, value] pairs
Entries(obj) ==
    Arr([i \in 1..Len(obj.entries) |-> Arr(<<Str(obj.entries[i].key), obj.entries[i].value>>)])

---------------------------------------------------------------------------
\* RegExp objects, transformers and suppliers: the user's code the decoders call

\* The RegExp objects of the model: /a/ and /a/g
RegExps == {"/a/", "/a/g"}

RegExpGlobal(re) == re = "/a/g"

\* regex.toString()
RegExpToString(re) == IF RegExpGlobal(re) THEN <<"/", "a", "/", "g">> ELSE <<"/", "a", "/">>

\* regex.test(s) with the RegExp's lastIndex li: a global RegExp searches from
\* lastIndex and leaves it after the match, or at 0 when there is none
RegExpTest(re, s, li) ==
    LET start == IF RegExpGlobal(re) THEN li ELSE 0
        hits == {p \in (start + 1)..Len(s) : s[p] = "a"}
    IN  IF hits = {}
        THEN [matched |-> FALSE, lastIndex |-> IF RegExpGlobal(re) THEN 0 ELSE li]
        ELSE [matched |-> TRUE,
              lastIndex |-> IF RegExpGlobal(re)
                            THEN CHOOSE p \in hits : \A q \in hits : p <= q
                            ELSE li]

RECURSIVE ValueToString(_)
\* $.toString() of a value that is neither null nor undefined
ValueToString(v) ==
    CASE v.k \in {"string", "number", "boolean"} -> Interpolate(v)
      [] v.k = "object" -> <<"[object Object]">>
      [] v.k = "array" ->
           Concat([i \in 1..Len(v.items) |->
                      (IF i > 1 THEN <<",">> ELSE <<>>)
                      \o (IF v.items[i].k \in {"null", "undefined"} THEN <<>>
                          ELSE ValueToString(v.items[i]))])

\* The transformers handed to andThen:
\*   toString    $ => $.toString()
\*   throw       _ => { throw e }, for an error or a value e
\*   regexTest   the transformer of regex
Transform(transformer, arg, st) ==
    LET st1 == Log(st, [fn |-> "transformer", transformer |-> transformer, data |-> arg])
    IN  CASE transformer.f = "toString" ->
               IF arg.k \in {"null", "undefined"}
               THEN [out |-> Throw(TypeError(<<"Cannot read properties of ">> \o show(arg))),
                     st |-> st1]
               ELSE [out |-> Return(Str(ValueToString(arg))), st |-> st1]
          [] transformer.f = "throw" ->
               [out |-> Throw(transformer.thrown), st |-> st1]
          [] transformer.f = "regexTest" ->
               LET t == RegExpTest(transformer.regex, arg.s, st1.lastIndex[transformer.regex])
                   st2 == [st1 EXCEPT !.lastIndex[transformer.regex] = t.lastIndex]
               IN  IF ~t.matched
                   THEN [out |-> Throw(DecoderError(
                                    <<"Data '">> \o Interpolate(arg)
                                    \o <<"' does not satisfy the regex '">>
                                    \o RegExpToString(transformer.regex) \o <<"'">>, <<>>)),
                         st |-> st2]
                   ELSE [out |-> Return(arg), st |-> st2]

K_name == <<"n", "a", "m", "e">>

K_sub == <<"s", "u", "b">>

\* The suppliers handed to recursive, by name:
\*   category   () => categoryDecoder, an object with a name and sub-categories
\*   user       () => userDecoder, a tuple of a name and an array of users
\*   text       () => unknown.andThen($ => $.toString())
\*   users      () => D.array(userDecoder), userDecoder the tuple of a name and
\*              D.recursive(() => D.array(userDecoder))
\*   tree       () => treeDecoder, treeDecoder = D.array(D.recursive(() => treeDecoder))
\*   loop       () => loopDecoder, loopDecoder = D.recursive(() => loopDecoder)
\*   maybe      () => maybeDecoder,
\*              maybeDecoder = D.oneOf(D.string, D.recursive(() => maybeDecoder))
Supplier(name) ==
    CASE name = "category" ->
           object([required |-> <<Field(K_name, string),
                                  Field(K_sub, array(recursive("category")))>>])
      [] name = "user" ->
           tuple(<<string, array(recursive("user"))>>)
      [] name = "text" ->
           andThen(unknown, [f |-> "toString"])
      [] name = "users" ->
           array(tuple(<<string, recursive("users")>>))
      [] name = "tree" ->
           array(recursive("tree"))
      [] name = "loop" ->
           recursive("loop")
      [] name = "maybe" ->
           oneOf(<<string, recursive("maybe")>>)

---------------------------------------------------------------------------
\* forceDecode of every decoder

RECURSIVE forceDecode(_, _, _)
RECURSIVE forceDecodeWithPath(_, _, _, _)
RECURSIVE oneOf_loop(_, _, _, _, _)
RECURSIVE oneOf_forceDecode(_, _, _)
RECURSIVE andThen_forceDecode(_, _, _)
RECURSIVE array_map(_, _, _, _, _)
RECURSIVE array_forceDecode(_, _, _)
RECURSIVE tuple_map(_, _, _, _, _)
RECURSIVE tuple_forceDecode(_, _, _)
RECURSIVE record_map(_, _, _, _, _)
RECURSIVE record_forceDecode(_, _, _)
RECURSIVE keyValuePairs_forceDecode(_, _, _)
RECURSIVE required_loop(_, _, _, _, _)
RECURSIVE required_forceDecode(_, _, _)
RECURSIVE partial_loop(_, _, _, _, _)
RECURSIVE partial_forceDecode(_, _, _)
RECURSIVE object_forceDecode(_, _, _)
RECURSIVE recursive_forceDecode(_, _, _)

\* forceDecodeWithPath putting pathPart after the path instead of before it
forceDecodeWithPath_appends(decoder, data, pathPart, st) ==
    LET r == forceDecode(decoder, data, st)
    IN  IF r.out.type = "return" THEN r
        ELSE IF IsDecoderError(r.out.error)
        THEN [out |-> Throw(DecoderError(r.out.error.message, r.out.error.path \o <<pathPart>>)),
              st |-> r.st]
        ELSE r

\* forceDecodeWithPath: a DecoderError is thrown anew with pathPart put before
\* its path; any other error is thrown on as it is
forceDecodeWithPath(decoder, data, pathPart, st) ==
    LET r == forceDecode(decoder, data, st)
    IN  IF r.out.type = "return" THEN r
        ELSE IF IsDecoderError(r.out.error)
        THEN [out |-> Throw(DecoderError(r.out.error.message, <<pathPart>> \o r.out.error.path)),
              st |-> r.st]
        ELSE r

\* unknown beginning with checkDefined, as the other primitives do
unknown_checksDefined(data, st) ==
    IF checkDefined(data).type = "throw" THEN [out |-> checkDefined(data), st |-> st]
    ELSE [out |-> Return(data), st |-> st]

unknown_forceDecode(data, st) == [out |-> Return(data), st |-> st]

null_forceDecode(data, st) ==
    IF StrictEquals(data, Null)
    THEN [out |-> Return(data), st |-> st]
    ELSE [out |-> Throw(DecoderError(<<"Provided value is not null.">>, <<>>)), st |-> st]

succeed_forceDecode(self, data, st) == [out |-> Return(self.value), st |-> st]

\* a primitive decoder letting null and undefined through
primitiveDecoder_acceptsMissing(self, data, st) ==
    IF checkDefined(data).type = "throw" THEN [out |-> Return(data), st |-> st]
    ELSE IF ~Condition(self.condition, data)
    THEN [out |-> Throw(DecoderError(<<"This is not ">> \o self.dataType \o <<":", " ">>
                                     \o show(data), <<>>)),
          st |-> st]
    ELSE [out |-> Return(data), st |-> st]

primitiveDecoder_forceDecode(self, data, st) ==
    IF checkDefined(data).type = "throw" THEN [out |-> checkDefined(data), st |-> st]
    ELSE IF ~Condition(self.condition, data)
    THEN [out |-> Throw(DecoderError(<<"This is not ">> \o self.dataType \o <<":", " ">>
                                     \o show(data), <<>>)),
          st |-> st]
    ELSE [out |-> Return(data), st |-> st]

\* literal comparing with Object.is: NaN is the same value as NaN
literal_sameValue(self, data, st) ==
    IF checkDefined(data).type = "throw" THEN [out |-> checkDefined(data), st |-> st]
    ELSE IF data # self.literal
    THEN [out |-> Throw(DecoderError(
                     <<"Data does not match the literal. Expected: '">>
                     \o Interpolate(self.literal) \o <<"', actual value: '">>
                     \o show(data) \o <<"'">>, <<>>)),
          st |-> st]
    ELSE [out |-> Return(data), st |-> st]

\* literal comparing with != : true equals 1, and '' equals 0 and false
literal_looseEquality(self, data, st) ==
    LET AsNumber(v) ==
            CASE v.k = "boolean" -> IF v.b THEN Num(1) ELSE Num(0)
              [] v.k = "string" /\ v.s = <<>> -> Num(0)
              [] OTHER -> v
    IN  IF checkDefined(data).type = "throw" THEN [out |-> checkDefined(data), st |-> st]
        ELSE IF ~(StrictEquals(data, self.literal)
                  \/ (data.k \in {"boolean", "number", "string"}
                      /\ data.k # self.literal.k
                      /\ StrictEquals(AsNumber(data), AsNumber(self.literal))))
        THEN [out |-> Throw(DecoderError(
                         <<"Data does not match the literal. Expected: '">>
                         \o Interpolate(self.literal) \o <<"', actual value: '">>
                         \o show(data) \o <<"'">>, <<>>)),
              st |-> st]
        ELSE [out |-> Return(data), st |-> st]

literal_forceDecode(self, data, st) ==
    IF checkDefined(data).type = "throw" THEN [out |-> checkDefined(data), st |-> st]
    ELSE IF ~StrictEquals(data, self.literal)
    THEN [out |-> Throw(DecoderError(
                     <<"Data does not match the literal. Expected: '">>
                     \o Interpolate(self.literal) \o <<"', actual value: '">>
                     \o show(data) \o <<"'">>, <<>>)),
          st |-> st]
    ELSE [out |-> Return(data), st |-> st]

\* the loop of oneOf going on to the remaining decoders after a success
oneOf_loop_noShortCircuit(decoders, i, data, errors, st) ==
    IF i > Len(decoders)
    THEN [out |-> Throw(DecoderError(<<"None of the decoders worked:", "\n">>
                                     \o show(Arr(errors)), <<>>)),
          st |-> st]
    ELSE LET r == forceDecode(decoders[i], data, st)
         IN  IF r.out.type = "return"
             THEN [out |-> r.out, st |-> oneOf_loop(decoders, i + 1, data, errors, r.st).st]
             ELSE oneOf_loop(decoders, i + 1, data,
                             Append(errors, Str(r.out.error.message)), r.st)

\* the loop of oneOf keeping only the message of the latest failure
oneOf_loop_keepLast(decoders, i, data, errors, st) ==
    IF i > Len(decoders)
    THEN [out |-> Throw(DecoderError(<<"None of the decoders worked:", "\n">>
                                     \o show(Arr(errors)), <<>>)),
          st |-> st]
    ELSE LET r == forceDecode(decoders[i], data, st)
         IN  IF r.out.type = "return" THEN r
             ELSE oneOf_loop(decoders, i + 1, data, <<Str(r.out.error.message)>>, r.st)

\* the loop of oneOf from the i-th decoder on, errors holding the messages so far
oneOf_loop(decoders, i, data, errors, st) ==
    IF i > Len(decoders)
    THEN [out |-> Throw(DecoderError(<<"None of the decoders worked:", "\n">>
                                     \o show(Arr(errors)), <<>>)),
          st |-> st]
    ELSE LET r == forceDecode(decoders[i], data, st)
         IN  IF r.out.type = "return" THEN r
             ELSE LET m == MessageOf(r.out.error)
                  IN  IF m.type = "throw" THEN [out |-> m, st |-> r.st]
                      ELSE oneOf_loop(decoders, i + 1, data,
                                      Append(errors,
                                             IF m.value.k \in {"null", "undefined"}
                                             THEN Str(<<"Unknown error">>)
                                             ELSE m.value),
                                      r.st)

oneOf_forceDecode(self, data, st) == oneOf_loop(self.decoders, 1, data, <<>>, st)

\* andThen handing the transformer the input instead of the decoded value
andThen_onInput(self, data, st) ==
    LET r == forceDecode(self.decoder, data, st)
    IN  IF r.out.type = "throw" THEN r
        ELSE Transform(self.transformer, data, r.st)

andThen_forceDecode(self, data, st) ==
    LET r == forceDecode(self.decoder, data, st)
    IN  IF r.out.type = "throw" THEN r
        ELSE Transform(self.transformer, r.out.value, r.st)

\* the map of array putting every result in front of the earlier ones
array_map_prepends(decoder, items, i, acc, st) ==
    IF i > Len(items) THEN [out |-> Return(Arr(acc)), st |-> st]
    ELSE LET r == forceDecodeWithPath(decoder, items[i], Decimal(i - 1), st)
         IN  IF r.out.type = "throw" THEN r
             ELSE array_map(decoder, items, i + 1, <<r.out.value>> \o acc, r.st)

\* the map of array going from the last element to the first
array_map_rightToLeft(decoder, items, i, acc, st) ==
    IF i > Len(items) THEN [out |-> Return(Arr(acc)), st |-> st]
    ELSE LET j == Len(items) + 1 - i
             r == forceDecodeWithPath(decoder, items[j], Decimal(j - 1), st)
         IN  IF r.out.type = "throw" THEN r
             ELSE array_map(decoder, items, i + 1, <<r.out.value>> \o acc, r.st)

\* the map of array handing the decoder the array in place of its element
array_map_wholeArray(decoder, items, i, acc, st) ==
    IF i > Len(items) THEN [out |-> Return(Arr(acc)), st |-> st]
    ELSE LET r == forceDecodeWithPath(decoder, Arr(items), Decimal(i - 1), st)
         IN  IF r.out.type = "throw" THEN r
             ELSE array_map(decoder, items, i + 1, Append(acc, r.out.value), r.st)

\* data.map((x, i) => forceDecodeWithPath(decoder, x, i.toString())) from the
\* i-th element on (i counts from 1, the path part from 0), acc the results so far
array_map(decoder, items, i, acc, st) ==
    IF i > Len(items) THEN [out |-> Return(Arr(acc)), st |-> st]
    ELSE LET r == forceDecodeWithPath(decoder, items[i], Decimal(i - 1), st)
         IN  IF r.out.type = "throw" THEN r
             ELSE array_map(decoder, items, i + 1, Append(acc, r.out.value), r.st)

array_forceDecode(self, data, st) ==
    IF checkDefined(data).type = "throw" THEN [out |-> checkDefined(data), st |-> st]
    ELSE IF checkArrayType(data).type = "throw" THEN [out |-> checkArrayType(data), st |-> st]
    ELSE array_map(self.decoder, data.items, 1, <<>>, st)

\* decoders.map((decoder, index) => forceDecodeWithPath(decoder, data[index], ...))
tuple_map(decoders, items, i, acc, st) ==
    IF i > Len(decoders) THEN [out |-> Return(Arr(acc)), st |-> st]
    ELSE LET r == forceDecodeWithPath(decoders[i], items[i], Decimal(i - 1), st)
         IN  IF r.out.type = "throw" THEN r
             ELSE tuple_map(decoders, items, i + 1, Append(acc, r.out.value), r.st)

\* tuple refusing an array that is longer than the decoder list
tuple_exactLength(self, data, st) ==
    IF checkDefined(data).type = "throw" THEN [out |-> checkDefined(data), st |-> st]
    ELSE IF checkArrayType(data).type = "throw" THEN [out |-> checkArrayType(data), st |-> st]
    ELSE IF Len(self.decoders) # Len(data.items)
    THEN [out |-> Throw(DecoderError(<<"The tuple is not long enough. ">>
                                     \o Decimal(Len(self.decoders)) \o <<" ", ">", " ">>
                                     \o Decimal(Len(data.items)), <<>>)),
          st |-> st]
    ELSE tuple_map(self.decoders, data.items, 1, <<>>, st)

tuple_forceDecode(self, data, st) ==
    IF checkDefined(data).type = "throw" THEN [out |-> checkDefined(data), st |-> st]
    ELSE IF checkArrayType(data).type = "throw" THEN [out |-> checkArrayType(data), st |-> st]
    ELSE IF Len(self.decoders) > Len(data.items)
    THEN [out |-> Throw(DecoderError(<<"The tuple is not long enough. ">>
                                     \o Decimal(Len(self.decoders)) \o <<" ", ">", " ">>
                                     \o Decimal(Len(data.items)), <<>>)),
          st |-> st]
    ELSE tuple_map(self.decoders, data.items, 1, <<>>, st)

\* the map of record leaving out the keys whose value fails
record_map_skipsFailures(decoder, entries, i, acc, st) ==
    IF i > Len(entries) THEN [out |-> Return(Obj(acc)), st |-> st]
    ELSE LET r == forceDecodeWithPath(decoder, entries[i].value, entries[i].key, st)
         IN  IF r.out.type = "throw" THEN record_map(decoder, entries, i + 1, acc, r.st)
             ELSE record_map(decoder, entries, i + 1,
                             Append(acc, Entry(entries[i].key, r.out.value)), r.st)

\* Object.entries(data).map(([key, value]) => [key, forceDecodeWithPath(...)])
record_map(decoder, entries, i, acc, st) ==
    IF i > Len(entries) THEN [out |-> Return(Obj(acc)), st |-> st]
    ELSE LET r == forceDecodeWithPath(decoder, entries[i].value, entries[i].key, st)
         IN  IF r.out.type = "throw" THEN r
             ELSE record_map(decoder, entries, i + 1,
                             Append(acc, Entry(entries[i].key, r.out.value)), r.st)

record_forceDecode(self, data, st) ==
    IF checkDefined(data).type = "throw" THEN [out |-> checkDefined(data), st |-> st]
    ELSE IF checkDictType(data).type = "throw" THEN [out |-> checkDictType(data), st |-> st]
    ELSE record_map(self.decoder, data.entries, 1, <<>>, st)

keyValuePairs_forceDecode(self, data, st) ==
    LET r == forceDecode(record(self.decoder), data, st)
    IN  IF r.out.type = "throw" THEN r
        ELSE [out |-> Return(Entries(r.out.value)), st |-> r.st]

\* the loop of required taking null for a missing value (data[key] == null)
required_loop_nullIsMissing(struct, i, data, parsed, st) ==
    IF i > Len(struct) THEN [out |-> Return(parsed), st |-> st]
    ELSE IF Get(data, struct[i].key).k \in {"undefined", "null"}
    THEN [out |-> Throw(DecoderError(<<"Object missing required property '">>
                                     \o struct[i].key \o <<"'">>, <<>>)),
          st |-> st]
    ELSE LET r == forceDecodeWithPath(struct[i].decoder, Get(data, struct[i].key),
                                      struct[i].key, st)
         IN  IF r.out.type = "throw" THEN r
             ELSE required_loop(struct, i + 1, data,
                                Assign(parsed, Obj(<<Entry(struct[i].key, r.out.value)>>)),
                                r.st)

\* for (const key in struct) of required, from the i-th field on
required_loop(struct, i, data, parsed, st) ==
    IF i > Len(struct) THEN [out |-> Return(parsed), st |-> st]
    ELSE IF StrictEquals(Get(data, struct[i].key), Undefined)
    THEN [out |-> Throw(DecoderError(<<"Object missing required property '">>
                                     \o struct[i].key \o <<"'">>, <<>>)),
          st |-> st]
    ELSE LET r == forceDecodeWithPath(struct[i].decoder, Get(data, struct[i].key),
                                      struct[i].key, st)
         IN  IF r.out.type = "throw" THEN r
             ELSE required_loop(struct, i + 1, data,
                                Assign(parsed, Obj(<<Entry(struct[i].key, r.out.value)>>)),
                                r.st)

required_forceDecode(self, data, st) ==
    IF checkDictType(data).type = "throw" THEN [out |-> checkDictType(data), st |-> st]
    ELSE required_loop(self.struct, 1, data, Obj(<<>>), st)

\* the loop of partial giving an absent field the value undefined
partial_loop_placeholder(struct, i, data, parsed, st) ==
    IF i > Len(struct) THEN [out |-> Return(parsed), st |-> st]
    ELSE IF ~StrictEquals(Get(data, struct[i].key), Undefined)
    THEN LET r == forceDecodeWithPath(struct[i].decoder, Get(data, struct[i].key),
                                      struct[i].key, st)
         IN  IF r.out.type = "throw" THEN r
             ELSE partial_loop(struct, i + 1, data,
                               Assign(parsed, Obj(<<Entry(struct[i].key, r.out.value)>>)),
                               r.st)
    ELSE partial_loop(struct, i + 1, data,
                      Assign(parsed, Obj(<<Entry(struct[i].key, Undefined)>>)), st)

\* for (const key in struct) of partial, from the i-th field on
partial_loop(struct, i, data, parsed, st) ==
    IF i > Len(struct) THEN [out |-> Return(parsed), st |-> st]
    ELSE IF ~StrictEquals(Get(data, struct[i].key), Undefined)
    THEN LET r == forceDecodeWithPath(struct[i].decoder, Get(data, struct[i].key),
                                      struct[i].key, st)
         IN  IF r.out.type = "throw" THEN r
             ELSE partial_loop(struct, i + 1, data,
                               Assign(parsed, Obj(<<Entry(struct[i].key, r.out.value)>>)),
                               r.st)
    ELSE partial_loop(struct, i + 1, data, parsed, st)

partial_forceDecode(self, data, st) ==
    IF checkDictType(data).type = "throw" THEN [out |-> checkDictType(data), st |-> st]
    ELSE partial_loop(self.struct, 1, data, Obj(<<>>), st)

object_forceDecode(self, data, st) ==
    IF checkDefined(data).type = "throw" THEN [out |-> checkDefined(data), st |-> st]
    ELSE LET hasRequired == "required" \in DOMAIN self.struct
             hasOptional == "optional" \in DOMAIN self.struct
             r1 == IF hasRequired
                   THEN forceDecode(required(self.struct.required), data, st)
                   ELSE [out |-> Return(Obj(<<>>)), st |-> st]
         IN  IF r1.out.type = "throw" THEN r1
             ELSE LET result1 == Assign(Obj(<<>>), r1.out.value)
                      r2 == IF hasOptional
                            THEN forceDecode(partial(self.struct.optional), data, r1.st)
                            ELSE [out |-> Return(Obj(<<>>)), st |-> r1.st]
                  IN  IF r2.out.type = "throw" THEN r2
                      ELSE [out |-> Return(Assign(result1, r2.out.value)), st |-> r2.st]

\* recursive calling the supplier once to test it and once more for the decoder
recursive_suppliesTwice(self, data, st) ==
    forceDecode(Supplier(self.supplier), data,
                Log(Log(st, [fn |-> "supplier", supplier |-> self.supplier]),
                    [fn |-> "supplier", supplier |-> self.supplier]))

recursive_forceDecode(self, data, st) ==
    forceDecode(Supplier(self.supplier), data,
                Log(st, [fn |-> "supplier", supplier |-> self.supplier]))

\* decoder.forceDecode(data): the invocation is logged, then the decoder's own
\* forceDecode runs
forceDecode(decoder, data, st) ==
    IF st.depth >= st.limit
    THEN [out |-> Throw(RangeError(<<"Maximum call stack size exceeded">>)), st |-> st]
    ELSE
    LET st1 == [st EXCEPT !.calls = Append(@, [fn |-> "forceDecode",
                                              decoder |-> decoder, data |-> data]),
                          !.depth = @ + 1,
                          !.deepest = IF @ > st.depth THEN @ ELSE st.depth + 1]
        r ==
        CASE decoder.d = "unknown" -> unknown_forceDecode(data, st1)
          [] decoder.d = "null" -> null_forceDecode(data, st1)
          [] decoder.d = "succeed" -> succeed_forceDecode(decoder, data, st1)
          [] decoder.d = "primitive" -> primitiveDecoder_forceDecode(decoder, data, st1)
          [] decoder.d = "literal" -> literal_forceDecode(decoder, data, st1)
          [] decoder.d = "oneOf" -> oneOf_forceDecode(decoder, data, st1)
          [] decoder.d = "andThen" -> andThen_forceDecode(decoder, data, st1)
          [] decoder.d = "array" -> array_forceDecode(decoder, data, st1)
          [] decoder.d = "tuple" -> tuple_forceDecode(decoder, data, st1)
          [] decoder.d = "record" -> record_forceDecode(decoder, data, st1)
          [] decoder.d = "keyValuePairs" -> keyValuePairs_forceDecode(decoder, data, st1)
          [] decoder.d = "required" -> required_forceDecode(decoder, data, st1)
          [] decoder.d = "partial" -> partial_forceDecode(decoder, data, st1)
          [] decoder.d = "object" -> object_forceDecode(decoder, data, st1)
          [] decoder.d = "recursive" -> recursive_forceDecode(decoder, data, st1)
    IN  [out |-> r.out, st |-> [r.st EXCEPT !.depth = st.depth]]

---------------------------------------------------------------------------
\* The methods createDecoder adds to a decoder

\* decode giving undefined, not null, when forceDecode throws
decode_undefinedOnFailure(decoder, data, st) ==
    LET r == forceDecode(decoder, data, st)
    IN  IF r.out.type = "return" THEN r
        ELSE [out |-> Return(Undefined), st |-> r.st]

\* decode catching a DecoderError only
decode_rethrowDefects(decoder, data, st) ==
    LET r == forceDecode(decoder, data, st)
    IN  IF r.out.type = "return" THEN r
        ELSE IF IsDecoderError(r.out.error) THEN [out |-> Return(Null), st |-> r.st]
        ELSE r

\* decode: forceDecode, and null when it throws anything
decode(decoder, data, st) ==
    LET r == forceDecode(decoder, data, st)
    IN  IF r.out.type = "return" THEN r
        ELSE [out |-> Return(Null), st |-> r.st]

\* validate catching every error into the error variant
validate_catchAll(decoder, data, st) ==
    LET r == forceDecode(decoder, data, st)
    IN  IF r.out.type = "return"
        THEN [out |-> Return([type |-> "ok", data |-> r.out.value]), st |-> r.st]
        ELSE [out |-> Return([type |-> "error", error |-> r.out.error]), st |-> r.st]

\* validate: forceDecode, a DecoderError caught into the error variant, any
\* other error thrown on
validate(decoder, data, st) ==
    LET r == forceDecode(decoder, data, st)
    IN  IF r.out.type = "return"
        THEN [out |-> Return([type |-> "ok", data |-> r.out.value]), st |-> r.st]
        ELSE IF IsDecoderError(r.out.error)
        THEN [out |-> Return([type |-> "error", error |-> r.out.error]), st |-> r.st]
        ELSE r

\* is catching a DecoderError only
is_rethrowDefects(decoder, data, st) ==
    LET r == forceDecode(decoder, data, st)
    IN  IF r.out.type = "return" THEN [out |-> Return(Bool(TRUE)), st |-> r.st]
        ELSE IF IsDecoderError(r.out.error) THEN [out |-> Return(Bool(FALSE)), st |-> r.st]
        ELSE r

\* is written as decode(data) !== null
is_viaDecode(decoder, data, st) ==
    LET r == forceDecode(decoder, data, st)
    IN  IF r.out.type = "return"
        THEN [out |-> Return(Bool(~StrictEquals(r.out.value, Null))), st |-> r.st]
        ELSE [out |-> Return(Bool(FALSE)), st |-> r.st]

\* is: forceDecode, true when it returns and false when it throws anything
is(decoder, data, st) ==
    LET r == forceDecode(decoder, data, st)
    IN  IF r.out.type = "return" THEN [out |-> Return(Bool(TRUE)), st |-> r.st]
        ELSE [out |-> Return(Bool(FALSE)), st |-> r.st]

---------------------------------------------------------------------------
\* The schemas and inputs the decoders are exercised on

K_a == <<"a">>

K_b == <<"b">>

S_a == Str(<<"a">>)

S_b == Str(<<"b">>)

\* unknown.andThen($ => $.toString()): throws a TypeError on null and undefined
text == andThen(unknown, [f |-> "toString"])

Atoms == {Undefined, Null, Bool(TRUE), Num(1), S_a, S_b}

AtomDecoders ==
    {unknown, string, number, literal(S_a), succeed(Num(1)),
     oneOf(<<>>), oneOf(<<number, string>>), oneOf(<<boolean, unknown, string>>),
     oneOf(<<text, string>>), nullable(string), nullable(text),
     literalUnion(<<S_a, Num(1)>>), regex("/a/"), recursive("text")}

SequenceDecoders == {array(number), tuple(<<number, string>>)}

SequenceInputs ==
    {Num(1), Arr(<<>>), Arr(<<Num(1), S_a>>), Arr(<<S_a, Null>>),
     Arr(<<Num(1), Num(1), S_a, Null>>)}

KeyedDecoders ==
    {record(number), keyValuePairs(text),
     object([required |-> <<Field(K_a, number)>>, optional |-> <<Field(K_b, number)>>])}

KeyedInputs ==
    {Null, Arr(<<>>), Obj(<<>>),
     Obj(<<Entry(K_a, Num(1))>>),
     Obj(<<Entry(K_a, Num(1)), Entry(K_b, S_a)>>),
     Obj(<<Entry(K_b, Num(2)), Entry(K_a, Null)>>)}

RecursiveDecoders == {recursive("category"), recursive("user")}

\* a category of the given name with the given sub-categories
Category(name, subs) == Obj(<<Entry(K_name, name), Entry(K_sub, Arr(subs))>>)

\* a user of the given name with the given friends
User(name, friends) == Arr(<<name, Arr(friends)>>)

RecursiveInputs ==
    {Category(S_a, <<Category(S_a, <<Category(S_a, <<>>)>>), Category(S_a, <<>>)>>),
     Category(S_a, <<Category(S_a, <<Category(S_a, <<>>), Category(Num(1), <<>>)>>)>>),
     User(S_a, <<User(S_a, <<User(S_a, <<>>)>>), User(S_a, <<>>)>>),
     User(S_a, <<User(S_a, <<>>), User(S_a, <<User(Null, <<>>)>>)>>)}

\* the transformers a decoder is chained with
Transformers ==
    {[f |-> "toString"],
     [f |-> "throw", thrown |-> DecoderError(<<>>, <<>>)]}

NoResult == [type |-> "none"]

\* The nested calls the host allows to the programs of the harness: more than
\* any of their decoders nests.
StackLimit == 64

\* a fresh evaluation state
Fresh ==
    [calls |-> <<>>, lastIndex |-> lastIndex,
     depth |-> 0, deepest |-> 0, limit |-> stack.limit]

Init ==
    /\ \/ subject \in AtomDecoders /\ input \in Atoms
       \/ subject \in SequenceDecoders /\ input \in SequenceInputs
       \/ subject \in KeyedDecoders /\ input \in KeyedInputs
       \/ subject \in RecursiveDecoders /\ input \in RecursiveInputs
    /\ wraps = <<>>
    /\ method = "none"
    /\ result = NoResult
    /\ calls = <<>>
    /\ lastIndex = [re \in RegExps |-> 0]
    /\ stack = [limit |-> StackLimit, deepest |-> 0]

\* a method of subject is called on input; a state records one call
Called(name, r) ==
    /\ method = "none"
    /\ method' = name
    /\ result' = r.out
    /\ calls' = r.st.calls
    /\ lastIndex' = r.st.lastIndex
    /\ stack' = [stack EXCEPT !.deepest = r.st.deepest]
    /\ UNCHANGED <<subject, input, wraps>>

CallForceDecode == Called("forceDecode", forceDecode(subject, input, Fresh))

CallDecode == Called("decode", decode(subject, input, Fresh))

CallValidate == Called("validate", validate(subject, input, Fresh))

CallIs == Called("is", is(subject, input, Fresh))

\* subject.andThen(t) becomes the subject: the schema is chained once, before it
\* is put inside a combinator
CallAndThen ==
    /\ method = "none"
    /\ wraps = <<>>
    /\ subject.d # "andThen"
    /\ \E t \in Transformers : subject' = andThen(subject, t)
    /\ UNCHANGED <<input, wraps, method, result, calls, lastIndex, stack>>

\* subject is put inside a combinator, and input inside the matching container;
\* path is what the combinator adds to the path of a failure of subject
Wrapped(kind, path, newSubject, newInput) ==
    /\ method = "none"
    /\ Len(wraps) < MaxWrap
    /\ subject' = newSubject
    /\ input' = newInput
    /\ wraps' = <<[kind |-> kind, path |-> path, decoder |-> subject, data |-> input]>> \o wraps
    /\ UNCHANGED <<method, result, calls, lastIndex, stack>>

WrapArray == Wrapped("array", <<Decimal(0)>>, array(subject), Arr(<<input>>))

WrapTuple ==
    Wrapped("tuple", <<Decimal(1)>>, tuple(<<unknown, subject>>), Arr(<<Null, input>>))

WrapRecord == Wrapped("record", <<K_a>>, record(subject), Obj(<<Entry(K_a, input)>>))

WrapRequired ==
    Wrapped("required", <<K_a>>, object([required |-> <<Field(K_a, subject)>>]),
            Obj(<<Entry(K_a, input)>>))

WrapOptional ==
    Wrapped("optional", <<K_b>>, object([optional |-> <<Field(K_b, subject)>>]),
            Obj(<<Entry(K_a, Null), Entry(K_b, input)>>))

Next ==
    \/ CallForceDecode
    \/ CallDecode
    \/ CallValidate
    \/ CallIs
    \/ CallAndThen
    \/ WrapArray
    \/ WrapTuple
    \/ WrapRecord
    \/ WrapRequired
    \/ WrapOptional

Spec == Init /\ [][Next]_vars

---------------------------------------------------------------------------
\* Properties

\* what subject.forceDecode(input) does
Forced == forceDecode(subject, input, Fresh)

\* the outcome of decoder.forceDecode(data)
Outcome(decoder, data) == forceDecode(decoder, data, Fresh).out

Failed(out) == out.type = "throw"

FailedWithDecoderError(out) == out.type = "throw" /\ IsDecoderError(out.error)

FailedWithDefect(out) == out.type = "throw" /\ ~IsDecoderError(out.error)

\* C1: validate returns the ok variant holding v exactly when forceDecode returns
\* v, the error variant holding e exactly when forceDecode throws the
\* DecoderError e, and throws on any other error forceDecode throws; a result
\* never holds both data and error.
C1_Validate ==
    method = "validate" =>
        /\ Forced.out.type = "return"
              => result = Return([type |-> "ok", data |-> Forced.out.value])
        /\ FailedWithDecoderError(Forced.out)
              => result = Return([type |-> "error", error |-> Forced.out.error])
        /\ FailedWithDefect(Forced.out) => result = Throw(Forced.out.error)
        /\ result.type = "return" => ~({"data", "error"} \subseteq DOMAIN result.value)

C1_Witness ==
    /\ method = "validate"
    /\ result.type = "return"
    /\ result.value.type = "error"
    /\ result.value.error.path # <<>>

\* C2: decode never throws; it returns what forceDecode returns, and null when
\* forceDecode fails with a DecoderError or with any other error.
C2_Decode ==
    method = "decode" =>
        /\ result.type = "return"
        /\ Forced.out.type = "return" => result = Return(Forced.out.value)
        /\ Failed(Forced.out) => result = Return(Null)

C2_Witness ==
    /\ method = "decode"
    /\ FailedWithDefect(Forced.out)
    /\ result = Return(Null)

\* C3 as claimed: when forceDecode fails with an error that is not a
\* DecoderError, decode, validate and is each throw that same error.
C3_AllPropagate ==
    (method \in {"decode", "validate", "is"} /\ FailedWithDefect(Forced.out))
        => result = Throw(Forced.out.error)

\* C3 as amended: when forceDecode fails with an error that is not a
\* DecoderError, validate throws that same error, decode returns null and is
\* returns false.
C3_OnlyValidatePropagates ==
    FailedWithDefect(Forced.out) =>
        /\ method = "validate" => result = Throw(Forced.out.error)
        /\ method = "decode" => result = Return(Null)
        /\ method = "is" => result = Return(Bool(FALSE))

C3_Witness ==
    /\ method = "is"
    /\ FailedWithDefect(Forced.out)
    /\ wraps # <<>>

\* C4: is returns true exactly when forceDecode returns and false when it
\* fails; it returns a boolean, never the decoded value or the error.
C4_Is ==
    method = "is" =>
        /\ result = Return(Bool(Forced.out.type = "return"))
        /\ result.type = "return" /\ result.value \in {Bool(TRUE), Bool(FALSE)}

C4_Witness ==
    /\ method = "is"
    /\ result = Return(Bool(TRUE))
    /\ Forced.out.value.k \in {"array", "object"}

\* the path segments the enclosing combinators contribute, outermost first
Segments == Concat([i \in 1..Len(wraps) |-> wraps[i].path])

RECURSIVE Dotted(_)
\* segments joined by "."
Dotted(segments) ==
    IF Len(segments) = 1 THEN segments[1]
    ELSE segments[1] \o <<".">> \o Dotted(Tail(segments))

\* the i-th enclosing combinator hands its datum to the decoder inside it: a
\* field of an object is handed on unless its value is undefined
HandsOn(i) == wraps[i].kind \in {"required", "optional"} => wraps[i].data # Undefined

\* the schema and the datum innermost in the enclosing combinators
Leaf ==
    IF wraps = <<>> THEN [decoder |-> subject, data |-> input]
    ELSE [decoder |-> wraps[Len(wraps)].decoder, data |-> wraps[Len(wraps)].data]

\* C5: a failure with raw message m and an empty path, propagating through k
\* enclosing combinators with segments s1..sk, reaches the caller with path
\* <<s1, ..., sk>> and message s1.s2. ... .sk: m; with k = 0 the path is
\* empty and the message is m.
C5_PathAndMessage ==
    LET leaf == Outcome(Leaf.decoder, Leaf.data)
    IN  (/\ method = "forceDecode"
         /\ \A i \in 1..Len(wraps) : HandsOn(i)
         /\ FailedWithDecoderError(leaf)
         /\ leaf.error.path = <<>>)
        => /\ FailedWithDecoderError(result)
           /\ result.error.path = Segments
           /\ result.error.message =
                 IF wraps = <<>> THEN leaf.error.message
                 ELSE Dotted(Segments) \o <<":", " ">> \o leaf.error.message

C5_Witness ==
    /\ method = "forceDecode"
    /\ Len(wraps) >= 2
    /\ \A i \in 1..Len(wraps) : HandsOn(i)
    /\ wraps[1].kind # wraps[2].kind
    /\ FailedWithDecoderError(Outcome(Leaf.decoder, Leaf.data))
    /\ Outcome(Leaf.decoder, Leaf.data).error.path = <<>>
    /\ Outcome(Leaf.decoder, Leaf.data).error.message # <<>>

\* the failure of the decoder inside the outermost enclosing combinator
Old == Outcome(wraps[1].decoder, wraps[1].data)

\* the outermost enclosing combinator re-raises a DecoderError of the decoder
\* inside it
ReRaised ==
    /\ method = "forceDecode"
    /\ wraps # <<>>
    /\ HandsOn(1)
    /\ FailedWithDecoderError(Old)

\* C6 as claimed: re-raised at segment p, the error has path <<p>> \o old.path,
\* and message p: old.message if old.path had exactly one segment, and
\* p.old.message if old.path had more than one.
C6_SeparatorByOldPathOne ==
    ReRaised =>
        /\ FailedWithDecoderError(result)
        /\ result.error.path = wraps[1].path \o Old.error.path
        /\ Len(Old.error.path) = 1
              => result.error.message = wraps[1].path[1] \o <<":", " ">> \o Old.error.message
        /\ Len(Old.error.path) > 1
              => result.error.message = wraps[1].path[1] \o <<".">> \o Old.error.message

\* C6 as amended: re-raised at segment p, the error has path <<p>> \o old.path,
\* and message p: old.message if old.path was empty, and p.old.message if
\* old.path had one segment or more.
C6_SeparatorByOldPathEmpty ==
    ReRaised =>
        /\ FailedWithDecoderError(result)
        /\ result.error.path = wraps[1].path \o Old.error.path
        /\ Len(Old.error.path) = 0
              => result.error.message = wraps[1].path[1] \o <<":", " ">> \o Old.error.message
        /\ Len(Old.error.path) >= 1
              => result.error.message = wraps[1].path[1] \o <<".">> \o Old.error.message

C6_Witness ==
    /\ ReRaised
    /\ Len(Old.error.path) = 1
    /\ result.error.message = wraps[1].path[1] \o <<".">> \o Old.error.message

\* C7 as claimed: an error that is not a DecoderError, thrown by a decoder
\* invoked while subject decodes, is what forceDecode of subject throws,
\* whatever combinators enclose that decoder.
C7_DefectsPropagate ==
    method = "forceDecode" =>
        \A i \in 1..Len(calls) :
            (/\ calls[i].fn = "forceDecode"
             /\ FailedWithDefect(Outcome(calls[i].decoder, calls[i].data)))
            => result = Outcome(calls[i].decoder, calls[i].data)

\* the invocation of subject.forceDecode(input) as logged
Top == [fn |-> "forceDecode", decoder |-> subject, data |-> input]

\* for a chained subject d.andThen(f): what d.forceDecode(input) does
Inner == forceDecode(subject.decoder, input, Fresh)

\* for a chained subject d.andThen(f): what f does on the value d decoded
Applied == Transform(subject.transformer, Inner.out.value, Inner.st)

\* C8: d.andThen(f).forceDecode(x) returns f(d.forceDecode(x)) when both
\* succeed; when d fails, f is not invoked and the failure is d's own; when f
\* throws a DecoderError the chained decoder fails with it, so validate gives
\* the error variant, decode null and is false.
C8_AndThen ==
    subject.d = "andThen" =>
        /\ (method = "forceDecode" /\ Failed(Inner.out))
              => result = Inner.out /\ calls = <<Top>> \o Inner.st.calls
        /\ (method = "forceDecode" /\ ~Failed(Inner.out))
              => result = Applied.out /\ calls = <<Top>> \o Applied.st.calls
        /\ (~Failed(Inner.out) /\ FailedWithDecoderError(Applied.out))
              => /\ method = "validate"
                    => result = Return([type |-> "error", error |-> Applied.out.error])
                 /\ method = "decode" => result = Return(Null)
                 /\ method = "is" => result = Return(Bool(FALSE))

C8_Witness ==
    /\ subject.d = "andThen"
    /\ method = "validate"
    /\ ~Failed(Inner.out)
    /\ FailedWithDecoderError(Applied.out)
    /\ result.value.type = "error"

\* C9: oneOf tries its decoders in the given order on the same input and
\* returns the result of the first that succeeds; the decoders after it are
\* not invoked.
C9_OneOfFirstSuccess ==
    (method = "forceDecode" /\ subject.d = "oneOf") =>
        \A i \in 1..Len(subject.decoders) :
            (/\ ~Failed(Outcome(subject.decoders[i], input))
             /\ \A j \in 1..(i - 1) : Failed(Outcome(subject.decoders[j], input)))
            => /\ result = Outcome(subject.decoders[i], input)
               /\ calls = <<Top>> \o Concat([j \in 1..i |->
                             forceDecode(subject.decoders[j], input, Fresh).st.calls])

C9_Witness ==
    /\ method = "forceDecode"
    /\ subject.d = "oneOf"
    /\ Len(subject.decoders) = 3
    /\ Failed(Outcome(subject.decoders[1], input))
    /\ ~Failed(Outcome(subject.decoders[2], input))
    /\ ~Failed(Outcome(subject.decoders[3], input))
    /\ result = Outcome(subject.decoders[2], input)

RECURSIVE ContainsInOrder(_, _, _)
\* whole holds the parts one after the other, in order, at or after position from
ContainsInOrder(whole, parts, from) ==
    IF parts = <<>> THEN TRUE
    ELSE \E p \in from..(Len(whole) - Len(Head(parts)) + 1) :
            /\ SubSeq(whole, p, p + Len(Head(parts)) - 1) = Head(parts)
            /\ ContainsInOrder(whole, Tail(parts), p + Len(Head(parts)))

\* every decoder of the union subject fails on input
AllFail == \A i \in 1..Len(subject.decoders) : Failed(Outcome(subject.decoders[i], input))

\* the failure messages of the decoders of the union subject, in decoder order
Messages ==
    [i \in 1..Len(subject.decoders) |-> Outcome(subject.decoders[i], input).error.message]

---------------------------------------------------------------------------
\* Leaf decoders and collection decoders on their own, over every input of
\* bounded size

\* The longest array given as input.
MaxLen == 3

\* The most entries of an object given as input.
MaxKeys == 2

\* The most decoders of a tuple, and the most values of a literalUnion.
MaxWidth == 2

K_c == <<"c">>

\* the values that are not containers
Scalars ==
    {Undefined, Null, Bool(TRUE), Bool(FALSE), Num(0), Num(1), Num(-1),
     NaN, Infinity, NegInfinity, Str(<<>>), S_a, S_b}

\* what a literal may be: a string, a number or a boolean
LiteralValues == {v \in Scalars : v.k \in {"string", "number", "boolean"}}

\* the members of the containers given as input
Members == {Undefined, Null, Num(1), S_a}

SeqsUpTo(set, n) == UNION {[1..m -> set] : m \in 0..n}

Arrays == {Arr(items) : items \in SeqsUpTo(Members, MaxLen)}

\* objects of distinct keys, in every insertion order
Objects ==
    {Obj([i \in 1..Len(keys) |-> Entry(keys[i], values[i])]) :
        <<keys, values>> \in
            {kv \in SeqsUpTo({K_a, K_b, K_c}, MaxKeys) \X SeqsUpTo(Members \ {Undefined}, MaxKeys) :
                /\ Len(kv[1]) = Len(kv[2])
                /\ \A i, j \in 1..Len(kv[1]) : kv[1][i] = kv[1][j] => i = j}}

\* a few containers, as inputs of the decoders that take none
SomeContainers ==
    {Arr(<<>>), Arr(<<S_a>>), Arr(<<Num(1), Null>>), Obj(<<>>), Obj(<<Entry(K_a, S_a)>>)}

\* the values of a literalUnion
UnionValues == {S_a, Num(1), Bool(TRUE), NaN}

\* the decoders nullable is applied to
NullableOperands ==
    {string, number, unknown, succeed(Num(1)), text, literal(S_a), array(number),
     nullable(string)}

LeafDecoders ==
    {unknown, string, number, boolean}
    \cup {literal(v) : v \in LiteralValues}
    \cup {literalUnion(vs) : vs \in SeqsUpTo(UnionValues, MaxWidth)}
    \cup {nullable(d) : d \in NullableOperands}

\* the decoders of the members of a collection
MemberDecoders == {unknown, string, number, text, nullable(number), array(number)}

SequenceSchemas ==
    {array(d) : d \in MemberDecoders}
    \cup {tuple(ds) : ds \in SeqsUpTo({number, string, unknown}, MaxWidth)}

RecordSchemas == {record(d) : d \in MemberDecoders}

\* a decoder and an input, nothing called yet
Start(decoders, inputs) ==
    /\ subject \in decoders
    /\ input \in inputs
    /\ wraps = <<>>
    /\ method = "none"
    /\ result = NoResult
    /\ calls = <<>>
    /\ lastIndex = [re \in RegExps |-> 0]
    /\ stack = [limit |-> StackLimit, deepest |-> 0]

InitLeaf == Start(LeafDecoders, Scalars \cup SomeContainers)

InitCollection ==
    \/ Start(SequenceSchemas, Scalars \cup SomeContainers \cup Arrays)
    \/ Start(RecordSchemas, Scalars \cup SomeContainers \cup Objects)

\* one of the four methods is called on the decoder as constructed
NextCall ==
    \/ CallForceDecode
    \/ CallDecode
    \/ CallValidate
    \/ CallIs

SpecLeaf == InitLeaf /\ [][NextCall]_vars

SpecCollection == InitCollection /\ [][NextCall]_vars

\* forceDecode was called and returned v
Returned(v) == method = "forceDecode" /\ result = Return(v)

\* forceDecode was called and threw a DecoderError
ThrewDecoderError == method = "forceDecode" /\ FailedWithDecoderError(result)

\* forceDecode was called and threw the DecoderError of this message and path
ThrewDecoderErrorOf(message, path) ==
    method = "forceDecode" /\ result = Throw(DecoderError(message, path))

\* the decoders of the Primitives section
Primitives ==
    {unknown, string, number, boolean}
    \cup {literal(v) : v \in LiteralValues}
    \cup {literalUnion(vs) : vs \in SeqsUpTo(UnionValues, MaxWidth)}

Missing == {Null, Undefined}

\* C11 as claimed: every primitive decoder - unknown, string, number, boolean,
\* literal(v), literalUnion(...) - fails with a DecoderError on null and on
\* undefined.
C11_AllPrimitivesRejectMissing ==
    (subject \in Primitives /\ input \in Missing /\ method = "forceDecode")
        => FailedWithDecoderError(result)

\* C11 as amended: string, number, boolean, literal(v) and literalUnion(...)
\* fail with a DecoderError on null and on undefined; unknown returns them.
C11_AllButUnknownRejectMissing ==
    (subject \in Primitives /\ input \in Missing /\ method = "forceDecode")
        => IF subject = unknown THEN result = Return(input)
           ELSE FailedWithDecoderError(result)

C11_Witness ==
    /\ subject = literalUnion(<<S_a, Num(1)>>)
    /\ input = Undefined
    /\ ThrewDecoderError

\* C12: unknown.forceDecode(x) returns x itself for every x, null and undefined
\* included, and unknown.is(x) is true.
C12_Unknown ==
    subject = unknown
        => /\ method = "forceDecode" => result = Return(input)
           /\ method = "is" => result = Return(Bool(TRUE))

C12_Witness == subject = unknown /\ input = Undefined /\ Returned(Undefined)

\* the type tag string, number and boolean look for
Tag(decoder) ==
    CASE decoder = string -> "string"
      [] decoder = number -> "number"
      [] decoder = boolean -> "boolean"

\* C13: string, number and boolean return x itself exactly when x has the
\* decoder's type tag (and, for number, is finite); they throw the DecoderError
\* 'This value is not there' on null and undefined, and on every other x a
\* DecoderError naming the expected type and showing x.  They coerce nothing.
C13_NoCoercion ==
    (subject \in {string, number, boolean} /\ method = "forceDecode")
        => IF input \in Missing
           THEN result = Throw(DecoderError(<<"This value is not there">>, <<>>))
           ELSE IF input.k = Tag(subject) /\ (subject = number => input.cls = "finite")
           THEN result = Return(input)
           ELSE result = Throw(DecoderError(<<"This is not ", "a " \o Tag(subject), ":", " ">>
                                            \o show(input), <<>>))

C13_Witness ==
    /\ subject = number
    /\ input = NegInfinity
    /\ ThrewDecoderErrorOf(<<"This is not ", "a number", ":", " ", "null">>, <<>>)

\* x === v for a literal v: the same type and the same value, and NaN equals nothing
Identical(x, v) == x = v /\ x # NaN

\* C14 as claimed: literal(v).forceDecode(v) returns v for every string, number
\* or boolean v, and literal(v).forceDecode(w) fails with a DecoderError for
\* every w that is not strictly equal to v.
C14_EveryLiteralAcceptsItself ==
    (subject \in {literal(v) : v \in LiteralValues} /\ method = "forceDecode")
        => /\ input = subject.literal => result = Return(input)
           /\ ~Identical(input, subject.literal) => FailedWithDecoderError(result)

\* C14 as amended: literal(v).forceDecode(w) returns w when w === v and fails
\* with a DecoderError for every other w; literal(NaN) fails on every input,
\* NaN included.
C14_StrictEquality ==
    (subject \in {literal(v) : v \in LiteralValues} /\ method = "forceDecode")
        => IF Identical(input, subject.literal) THEN result = Return(input)
           ELSE FailedWithDecoderError(result)

C14_Witness == subject = literal(NaN) /\ input = NaN /\ ThrewDecoderError

\* C15: literalUnion(v1, ..., vn) is oneOf(literal(v1), ..., literal(vn)):
\* forceDecode returns x exactly when x === vi for some i, and otherwise fails
\* with a DecoderError, as it does on every x when n = 0.
C15_LiteralUnion ==
    \A vs \in SeqsUpTo(UnionValues, MaxWidth) :
        (subject = literalUnion(vs) /\ method = "forceDecode")
            => /\ subject = oneOf([i \in 1..Len(vs) |-> literal(vs[i])])
               /\ IF \E i \in 1..Len(vs) : Identical(input, vs[i])
                  THEN result = Return(input)
                  ELSE FailedWithDecoderError(result)

C15_Witness ==
    /\ subject = literalUnion(<<S_a, Num(1)>>)
    /\ input = Num(1)
    /\ Returned(Num(1))
    /\ Len(calls) = 3

\* C16 as claimed: for every decoder d, nullable(d).forceDecode(null) returns
\* null; a non-null x is passed to d, whose value is returned when d succeeds,
\* and nullable(d) fails when d fails; nullable(d).forceDecode(undefined) fails.
C16_Nullable ==
    \A d \in NullableOperands :
        (subject = nullable(d) /\ method = "forceDecode")
            => /\ input = Null => result = Return(Null)
               /\ input # Null =>
                      IF Failed(Outcome(d, input)) THEN Failed(result)
                      ELSE result = Outcome(d, input)
               /\ input = Undefined => Failed(result)

\* what decoder.forceDecode(data) logs: its own invocation and those it makes
Invocations(decoder, data) == forceDecode(decoder, data, Fresh).st.calls

\* the positions of items whose element fails under decoder
Failing(decoder, items) == {i \in 1..Len(items) : Failed(Outcome(decoder, items[i]))}

Lowest(set) == CHOOSE i \in set : \A j \in set : i <= j

\* the error of a failure e of a member, as the collection throws it for the
\* path segment: a DecoderError gets the segment in front of its path, any
\* other error is thrown as it is
AtSegment(e, segment) ==
    IF IsDecoderError(e)
    THEN Throw([name |-> "DecoderError",
                path |-> <<segment>> \o e.path,
                message |-> segment
                            \o (IF e.path = <<>> THEN <<":", " ">> ELSE <<".">>)
                            \o e.message])
    ELSE Throw(e)

\* C17: array(d).forceDecode(x) fails for null, undefined and every x that is
\* not an array; for an array whose elements all decode it returns the array,
\* of the same length, of d.forceDecode(x[i]) in input order; the empty array
\* gives the empty array for any d.
C17_Array ==
    \A d \in MemberDecoders :
        (subject = array(d) /\ method = "forceDecode")
            => /\ input.k # "array" => FailedWithDecoderError(result)
               /\ (input.k = "array" /\ Failing(d, input.items) = {})
                      => result = Return(Arr([i \in 1..Len(input.items) |->
                                                 Outcome(d, input.items[i]).value]))
               /\ input = Arr(<<>>) => result = Return(Arr(<<>>))

C17_Witness ==
    /\ subject = array(text)
    /\ input = Arr(<<Num(1), S_a, Num(1)>>)
    /\ Returned(Arr(<<Str(<<"1">>), S_a, Str(<<"1">>)>>))

\* C18: when elements of x fail under d, array(d).forceDecode(x) fails with
\* the failure of the failing element of lowest index i, its path beginning
\* with i in decimal; the elements are decoded from the left, and those after
\* i are not decoded.
C18_ArrayFirstFailure ==
    \A d \in MemberDecoders :
        (/\ subject = array(d)
         /\ method = "forceDecode"
         /\ input.k = "array"
         /\ Failing(d, input.items) # {})
            => LET i == Lowest(Failing(d, input.items))
               IN  /\ result = AtSegment(Outcome(d, input.items[i]).error, Decimal(i - 1))
                   /\ FailedWithDecoderError(result) => result.error.path[1] = Decimal(i - 1)
                   /\ calls = <<Top>> \o Concat([j \in 1..i |-> Invocations(d, input.items[j])])

C18_Witness ==
    /\ subject = array(number)
    /\ input = Arr(<<Num(1), S_a, Null>>)
    /\ ThrewDecoderErrorOf(<<"This is not ", "a number", ":", " ", "\"", "a", "\"">>, <<Decimal(1)>>)
    /\ Len(calls) = 3

\* the positions among the first n of items whose element fails under its decoder
FailingAt(decoders, items) ==
    {i \in 1..Len(decoders) : Failed(Outcome(decoders[i], items[i]))}

\* C19: tuple(d0, ..., dn-1).forceDecode(x) fails when x is null, undefined,
\* not an array, or an array of fewer than n elements; otherwise it returns the
\* array of exactly n elements di.forceDecode(x[i]), the elements from x[n] on
\* being left out, and a failure at position i gets the path segment i.
C19_Tuple ==
    \A ds \in SeqsUpTo({number, string, unknown}, MaxWidth) :
        (subject = tuple(ds) /\ method = "forceDecode")
            => IF input.k # "array" \/ Len(input.items) < Len(ds)
               THEN FailedWithDecoderError(result) /\ result.error.path = <<>>
               ELSE IF FailingAt(ds, input.items) = {}
               THEN result = Return(Arr([i \in 1..Len(ds) |->
                                            Outcome(ds[i], input.items[i]).value]))
               ELSE LET i == Lowest(FailingAt(ds, input.items))
                    IN  result = AtSegment(Outcome(ds[i], input.items[i]).error,
                                           Decimal(i - 1))

C19_Witness ==
    /\ subject = tuple(<<number, string>>)
    /\ input = Arr(<<Num(1), S_a, Null>>)
    /\ Returned(Arr(<<Num(1), S_a>>))

\* the positions of entries whose value fails under decoder
FailingEntries(decoder, entries) ==
    {i \in 1..Len(entries) : Failed(Outcome(decoder, entries[i].value))}

\* C20: record(d).forceDecode(x) fails for null, undefined, arrays and every x
\* that is not a mapping; for a mapping whose values all decode it returns the
\* mapping of the same keys in which k holds d.forceDecode(x[k]); when a value
\* fails, the decode fails with the key of a failing value - the first in the
\* order of the keys - as the first path segment.
C20_Record ==
    \A d \in MemberDecoders :
        (subject = record(d) /\ method = "forceDecode")
            => IF input.k # "object"
               THEN FailedWithDecoderError(result) /\ result.error.path = <<>>
               ELSE IF FailingEntries(d, input.entries) = {}
               THEN result = Return(Obj([i \in 1..Len(input.entries) |->
                                            Entry(input.entries[i].key,
                                                  Outcome(d, input.entries[i].value).value)]))
               ELSE LET i == Lowest(FailingEntries(d, input.entries))
                    IN  /\ result = AtSegment(Outcome(d, input.entries[i].value).error,
                                              input.entries[i].key)
                        /\ FailedWithDecoderError(result)
                               => result.error.path[1] = input.entries[i].key

C20_Witness ==
    /\ subject = record(number)
    /\ input = Obj(<<Entry(K_b, Num(1)), Entry(K_a, S_a)>>)
    /\ ThrewDecoderErrorOf(<<"This is not ", "a number", ":", " ", "\"", "a", "\"">>, <<K_a>>)

---------------------------------------------------------------------------
\* keyValuePairs and object on their own

\* the objects of up to MaxKeys distinct keys, in every insertion order
ObjectsOver(keys, values) ==
    {Obj([i \in 1..Len(kv[1]) |-> Entry(kv[1][i], kv[2][i])]) :
        kv \in {c \in SeqsUpTo(keys, MaxKeys) \X SeqsUpTo(values, MaxKeys) :
                  /\ Len(c[1]) = Len(c[2])
                  /\ \A i, j \in 1..Len(c[1]) : c[1][i] = c[1][j] => i = j}}

\* the inputs of the keyed decoders; a member may be undefined
KeyedObjects == ObjectsOver({K_a, K_b, K_c}, {Undefined, Null, Num(1), S_a})

\* the key to decoder maps handed to object, keys a and b
Structs ==
    {fs \in SeqsUpTo({Field(k, d) : k \in {K_a, K_b}, d \in {string, nullable(string)}},
                     MaxWidth) :
        \A i, j \in 1..Len(fs) : fs[i].key = fs[j].key => i = j}

\* object({})
NoStruct == [f \in {} |-> f]

ObjectSchemas ==
    {object(NoStruct)}
    \cup {object([required |-> r]) : r \in Structs}
    \cup {object([optional |-> o]) : o \in Structs}
    \cup {object([required |-> r, optional |-> o]) :
              r \in {fs \in Structs : Len(fs) = 1}, o \in {fs \in Structs : Len(fs) = 1}}

PairSchemas == {keyValuePairs(d) : d \in MemberDecoders}

InitKeyed ==
    Start(PairSchemas \cup ObjectSchemas, Scalars \cup SomeContainers \cup KeyedObjects)

SpecKeyed == InitKeyed /\ [][NextCall]_vars

\* C21: keyValuePairs(d) fails exactly when record(d) fails, with the same
\* error, and otherwise returns the [key, value] pairs of what record(d)
\* returns, one pair per key of x in the order of the keys.
C21_KeyValuePairs ==
    \A d \in MemberDecoders :
        (subject = keyValuePairs(d) /\ method = "forceDecode")
            => LET asRecord == Outcome(record(d), input)
               IN  IF Failed(asRecord) THEN result = asRecord
                   ELSE /\ result.type = "return"
                        /\ result.value.k = "array"
                        /\ Len(result.value.items) = Len(input.entries)
                        /\ \A i \in 1..Len(input.entries) :
                              result.value.items[i]
                                  = Arr(<<Str(input.entries[i].key),
                                          Get(asRecord.value, input.entries[i].key)>>)

C21_Witness ==
    /\ subject = keyValuePairs(text)
    /\ input = Obj(<<Entry(K_b, Num(1)), Entry(K_a, S_a)>>)
    /\ Returned(Arr(<<Arr(<<Str(K_b), Str(<<"1">>)>>), Arr(<<Str(K_a), S_a>>)>>))

\* the fields object decodes as required ones, and as optional ones
RequiredOf(decoder) ==
    IF "required" \in DOMAIN decoder.struct THEN decoder.struct.required ELSE <<>>

OptionalOf(decoder) ==
    IF "optional" \in DOMAIN decoder.struct THEN decoder.struct.optional ELSE <<>>

\* the field decodes on the datum: x[k] is there and the field's decoder accepts it
Decodes(field, data) ==
    /\ Get(data, field.key) # Undefined
    /\ ~Failed(Outcome(field.decoder, Get(data, field.key)))

\* the message of the failure for a required field that is not there
MissingMessage(key) == <<"Object missing required property '">> \o key \o <<"'">>

\* C22 as claimed: when a required field k is absent from the mapping x (and
\* the required fields before it decode), object fails with a DecoderError that
\* has the 'missing required property' message and the path [k].
C22_MissingFieldHasPath ==
    (subject \in ObjectSchemas /\ method = "forceDecode" /\ input.k = "object")
        => \A i \in 1..Len(RequiredOf(subject)) :
              LET r == RequiredOf(subject)
              IN  (/\ Get(input, r[i].key) = Undefined
                   /\ \A j \in 1..(i - 1) : Decodes(r[j], input))
                      => /\ FailedWithDecoderError(result)
                         /\ ContainsInOrder(result.error.message,
                                            <<MissingMessage(r[i].key)>>, 1)
                         /\ result.error.path = <<r[i].key>>

\* the keys of an object
KeysOf(obj) == {obj.entries[i].key : i \in 1..Len(obj.entries)}

\* the keys of a sequence of fields
Named(fields) == {fields[i].key : i \in 1..Len(fields)}

\* the optional fields of the decoder that x has
PresentOptional(decoder, x) ==
    SelectSeq(OptionalOf(decoder), LAMBDA f : Get(x, f.key) # Undefined)

\* the decoder whose result the key of the output holds: the optional one when
\* the key is named in both maps, since its result is assigned last
DecoderFor(decoder, x, key) ==
    LET fields == RequiredOf(decoder) \o PresentOptional(decoder, x)
        last == CHOOSE i \in 1..Len(fields) :
                    /\ fields[i].key = key
                    /\ \A j \in (i + 1)..Len(fields) : fields[j].key # key
    IN  fields[last].decoder

\* C23: on success object({required: R, optional: O}).forceDecode(x) returns a
\* mapping whose keys are exactly those of R and those of O that x has, each
\* holding the result of its decoder on x[k]; an optional field x does not have
\* gives no key, and a key of x named in neither map is not in the output.
C23_ObjectResult ==
    (subject \in ObjectSchemas /\ method = "forceDecode" /\ result.type = "return")
        => LET out == result.value
           IN  /\ out.k = "object"
               /\ \A i, j \in 1..Len(out.entries) :
                      out.entries[i].key = out.entries[j].key => i = j
               /\ KeysOf(out) = Named(RequiredOf(subject))
                                   \cup Named(PresentOptional(subject, input))
               /\ \A key \in KeysOf(out) :
                      Get(out, key)
                          = Outcome(DecoderFor(subject, input, key), Get(input, key)).value

C23_Witness ==
    /\ subject = object([required |-> <<Field(K_a, string)>>,
                         optional |-> <<Field(K_b, nullable(string))>>])
    /\ input = Obj(<<Entry(K_c, Num(1)), Entry(K_a, S_a)>>)
    /\ Returned(Obj(<<Entry(K_a, S_a)>>))

\* C24: in object, null is not a missing value.  Going through the required
\* fields and then the optional ones, as long as the earlier fields pass: a
\* field whose value is not undefined - null included - is handed to its
\* decoder, a failure of the decoder gets the path segment k, and a null the
\* decoder accepts is in the output; only a field whose value is undefined is
\* not handed over: a required one is reported missing, an optional one left out.
C24_NullIsPresent ==
    (subject \in ObjectSchemas /\ method = "forceDecode" /\ input.k = "object")
        => LET n == Len(RequiredOf(subject))
               fields == RequiredOf(subject) \o OptionalOf(subject)
               Passes(j) == (j > n /\ Get(input, fields[j].key) = Undefined)
                            \/ Decodes(fields[j], input)
           IN  \A i \in 1..Len(fields) :
                  (\A j \in 1..(i - 1) : Passes(j))
                     => LET key == fields[i].key
                            v == Get(input, key)
                            call == [fn |-> "forceDecode", decoder |-> fields[i].decoder,
                                     data |-> v]
                            own == Outcome(fields[i].decoder, v)
                        IN  IF v = Undefined
                            THEN /\ \A c \in 1..Len(calls) : calls[c] # call
                                 /\ i <= n => result = Throw(DecoderError(MissingMessage(key), <<>>))
                            ELSE /\ \E c \in 1..Len(calls) : calls[c] = call
                                 /\ Failed(own) => result = AtSegment(own.error, key)
                                 /\ (v = Null /\ result.type = "return")
                                        => Get(result.value, key) = Null

C24_Witness ==
    /\ subject = object([optional |-> <<Field(K_a, string)>>])
    /\ input = Obj(<<Entry(K_a, Null)>>)
    /\ ThrewDecoderErrorOf(<<"This value is not there">>, <<K_a>>)

\* C28 as claimed: object(struct).forceDecode(x) throws a DecoderError for
\* every x that is not a mapping, for every struct, object({}) included.
C28_ObjectRejectsNonMappings ==
    (subject \in ObjectSchemas /\ method = "forceDecode" /\ input.k # "object")
        => FailedWithDecoderError(result)

---------------------------------------------------------------------------
\* Decoders that may give null

NullDecoders ==
    {unknown, null_, string, succeed(Null), succeed(Num(1)), nullable(string),
     nullable(text), text, andThen(null_, [f |-> "toString"]),
     andThen(unknown, [f |-> "throw", thrown |-> DecoderError(<<>>, <<>>)])}

InitNull == Start(NullDecoders, Scalars \cup SomeContainers)

SpecNull == InitNull /\ [][NextCall]_vars

\* C29 as claimed: decode returns null only if forceDecode fails.
C29_NullMeansFailure ==
    (method = "decode" /\ result = Return(Null)) => Failed(Outcome(subject, input))

\* C29 as amended: decode returns null exactly when forceDecode fails or
\* returns null itself.
C29_NullMeansFailureOrNull ==
    method = "decode"
        => (result = Return(Null)
               <=> (Failed(Outcome(subject, input)) \/ Outcome(subject, input) = Return(Null)))

C29_Witness ==
    /\ subject = nullable(string)
    /\ input = Null
    /\ method = "decode"
    /\ result = Return(Null)
    /\ Outcome(subject, input) = Return(Null)

---------------------------------------------------------------------------
\* Unions of one decoder, inside combinators

\* the decoders the unions are made of: their failures have a path
UnionOperands ==
    {string, array(number), tuple(<<number, string>>), record(number),
     object([required |-> <<Field(K_a, array(string))>>])}

Unions ==
    {nullable(d) : d \in UnionOperands} \cup {oneOf(<<d>>) : d \in UnionOperands}

UnionInputs ==
    {Null, S_a, Arr(<<Num(1), S_a>>), Arr(<<S_a, Num(1)>>),
     Obj(<<Entry(K_a, Num(1))>>), Obj(<<Entry(K_a, Arr(<<Num(1)>>))>>),
     Obj(<<Entry(K_b, S_a), Entry(K_a, Arr(<<S_a, Null>>))>>)}

InitUnion == Start(Unions, UnionInputs)

\* a method is called, or the schema is put inside one more combinator
NextUnion ==
    \/ CallForceDecode
    \/ CallDecode
    \/ CallValidate
    \/ CallIs
    \/ WrapArray
    \/ WrapTuple
    \/ WrapRecord
    \/ WrapRequired
    \/ WrapOptional

SpecUnion == InitUnion /\ [][NextUnion]_vars

\* C30 as claimed: when nullable(d), or oneOf(d), sits at the location p inside
\* enclosing combinators and gets a non-null input on which d fails with the
\* path q, the DecoderError reaching the caller has the path p followed by q.
C30_PathSurvivesUnion ==
    LET inner == Outcome(Leaf.decoder.decoders[1], Leaf.data)
    IN  (/\ method = "forceDecode"
         /\ Leaf.decoder \in Unions
         /\ Leaf.data # Null
         /\ FailedWithDecoderError(inner))
        => /\ FailedWithDecoderError(result)
           /\ result.error.path = Segments \o inner.error.path

---------------------------------------------------------------------------
\* Self-referential schemas

\* How deep the nested users and categories given as input go.
MaxDepth == 3

\* the names of the nested inputs: a string, and null, which is no name
Names == {S_a, Null}

\* a user or a category with the given name and members
Structure(kind, name, members) ==
    IF kind = "user" THEN User(name, members) ELSE Category(name, members)

RECURSIVE Nested(_, _)
\* the users, or categories, of up to n levels below the top, every level
\* holding at most one structure of the next
Nested(kind, n) ==
    IF n = 0 THEN {Structure(kind, name, <<>>) : name \in Names}
    ELSE {Structure(kind, name, members) :
             name \in Names, members \in SeqsUpTo(Nested(kind, n - 1), 1)}

Users == Nested("user", MaxDepth) \cup {v \in RecursiveInputs : v.k = "array"}

Categories == Nested("category", MaxDepth) \cup {v \in RecursiveInputs : v.k = "object"}

\* the decoder of a user with recursive inside the array of friends, around
\* the array of friends, and around the whole tuple
UserPlacements ==
    {Supplier("user"), tuple(<<string, recursive("users")>>), recursive("user")}

CategoryPlacements == {Supplier("category"), recursive("category")}

InitRecursive ==
    \/ Start(UserPlacements \cup CategoryPlacements \cup {recursive("text")},
             Users \cup Categories \cup {Null, S_a, Arr(<<>>)})
    \/ Start({recursive("users")}, {Arr(<<u>>) : u \in Users})

SpecRecursive == InitRecursive /\ [][NextCall]_vars

RECURSIVE IsUser(_)
\* v is a user: a string and an array of users
IsUser(v) ==
    /\ v.k = "array"
    /\ Len(v.items) = 2
    /\ v.items[1].k = "string"
    /\ v.items[2].k = "array"
    /\ \A i \in 1..Len(v.items[2].items) : IsUser(v.items[2].items[i])

RECURSIVE Levels(_)
\* how many users are nested in one another in the user v
Levels(v) ==
    IF v.items[2].items = <<>> THEN 1
    ELSE LET below == {Levels(v.items[2].items[i]) : i \in 1..Len(v.items[2].items)}
         IN  1 + CHOOSE m \in below : \A o \in below : o <= m

\* C25: recursive(s).forceDecode(x) calls the supplier s once and returns, or
\* throws, exactly what s().forceDecode(x) does, with no path segment of its
\* own; the three placements of recursive in the schema of a user give the
\* same outcome on every input; and a nested user is decoded to an equal value.
C25_Recursive ==
    method = "forceDecode"
        => /\ \A s \in {"user", "users", "category", "text"} :
                 subject = recursive(s)
                    => /\ result = Outcome(Supplier(s), input)
                       /\ calls = <<Top, [fn |-> "supplier", supplier |-> s]>>
                                    \o Invocations(Supplier(s), input)
           /\ subject \in UserPlacements
                 => /\ \A p \in UserPlacements : result = Outcome(p, input)
                    /\ IsUser(input) => result = Return(input)
           /\ subject \in CategoryPlacements
                 => \A p \in CategoryPlacements : result = Outcome(p, input)

C25_Witness ==
    /\ subject = tuple(<<string, recursive("users")>>)
    /\ IsUser(input)
    /\ Levels(input) >= 4
    /\ Returned(input)

---------------------------------------------------------------------------
\* Decoders called more than once

S_aa == Str(<<"a", "a">>)

S_ba == Str(<<"b", "a">>)

RepeatDecoders ==
    {string, number, literal(S_a), unknown,
     regex("/a/"), regex("/a/g"),
     array(regex("/a/")), array(regex("/a/g")),
     nullable(regex("/a/g")), oneOf(<<number, regex("/a/")>>),
     object([required |-> <<Field(K_a, regex("/a/g"))>>])}

RepeatInputs ==
    {S_a, S_b, S_aa, S_ba, Num(1), Null,
     Arr(<<S_a>>), Arr(<<S_a, S_a>>), Arr(<<S_ba, S_b>>), Obj(<<Entry(K_a, S_a)>>), Obj(<<Entry(K_a, S_ba)>>)}

InitRepeat == Start(RepeatDecoders, RepeatInputs)

\* a method of subject is called on input, whatever was called before
Invoked(name, r) ==
    /\ method' = name
    /\ result' = r.out
    /\ calls' = r.st.calls
    /\ lastIndex' = r.st.lastIndex
    /\ stack' = [stack EXCEPT !.deepest = r.st.deepest]
    /\ UNCHANGED <<subject, input, wraps>>

RepeatForceDecode == Invoked("forceDecode", forceDecode(subject, input, Fresh))

RepeatDecode == Invoked("decode", decode(subject, input, Fresh))

RepeatValidate == Invoked("validate", validate(subject, input, Fresh))

RepeatIs == Invoked("is", is(subject, input, Fresh))

\* the program turns to another decoder, built from the same RegExp objects,
\* and another input
Share ==
    /\ method # "none"
    /\ subject' \in RepeatDecoders
    /\ input' \in RepeatInputs
    /\ method' = "none"
    /\ result' = NoResult
    /\ calls' = <<>>
    /\ UNCHANGED <<wraps, lastIndex, stack>>

NextRepeat ==
    \/ RepeatForceDecode
    \/ RepeatDecode
    \/ RepeatValidate
    \/ RepeatIs
    \/ Share

SpecRepeat == InitRepeat /\ [][NextRepeat]_vars

\* the evaluation state of a program that has called nothing yet
Pristine == [Fresh EXCEPT !.lastIndex = [re \in RegExps |-> 0]]

\* what the method called name gives for decoder and data in the state st
Method(name, decoder, data, st) ==
    CASE name = "forceDecode" -> forceDecode(decoder, data, st)
      [] name = "decode" -> decode(decoder, data, st)
      [] name = "validate" -> validate(decoder, data, st)
      [] name = "is" -> is(decoder, data, st)

\* C26: whatever was called before, on this decoder or on another one sharing
\* parts with it, a method called on an input gives the result it gives when
\* it is the first call of the program.
C26_ReferentiallyStable ==
    method # "none" => result = Method(method, subject, input, Pristine).out

---------------------------------------------------------------------------
\* Nested calls

\* The nested calls the host allows where its limit is to be reached.
MaxRoom == 8

\* the decoders whose forceDecode the forceDecode of d calls on its own data
SameData(d) ==
    CASE d.d = "oneOf" -> {d.decoders[i] : i \in 1..Len(d.decoders)}
      [] d.d = "andThen" -> {d.decoder}
      [] d.d = "keyValuePairs" -> {record(d.decoder)}
      [] d.d = "object" ->
           {required(d.struct[f]) : f \in DOMAIN d.struct \cap {"required"}}
           \cup {partial(d.struct[f]) : f \in DOMAIN d.struct \cap {"optional"}}
      [] d.d = "recursive" -> {Supplier(d.supplier)}
      [] OTHER -> {}

\* the decoders whose forceDecode the forceDecode of d calls on a member of
\* its data
OnMember(d) ==
    CASE d.d \in {"array", "record"} -> {d.decoder}
      [] d.d = "tuple" -> {d.decoders[i] : i \in 1..Len(d.decoders)}
      [] d.d \in {"required", "partial"} -> {d.struct[i].decoder : i \in 1..Len(d.struct)}
      [] OTHER -> {}

RECURSIVE Reach(_, _)
\* seen and the decoders that those of todo call, directly or not
Reach(todo, seen) ==
    IF todo = {} THEN seen
    ELSE LET d == CHOOSE x \in todo : TRUE
         IN  Reach((todo \cup SameData(d) \cup OnMember(d)) \ (seen \cup {d}),
                   seen \cup {d})

\* the decoders of the schema d
Schema(d) == Reach({d}, {})

RECURSIVE Loops(_, _)
\* d is in seen, or calls on its own data, directly or not, a decoder of seen
\* or itself
Loops(d, seen) == d \in seen \/ \E c \in SameData(d) : Loops(c, seen \cup {d})

\* every reference of the schema d to itself passes through a member of the data
Guarded(d) == \A c \in Schema(d) : ~Loops(c, {})

RECURSIVE Depth(_)
\* how deep the containers of the value v are nested
Depth(v) ==
    LET below == IF v.k = "array" THEN {Depth(v.items[i]) : i \in 1..Len(v.items)}
                 ELSE {Depth(v.entries[i].value) : i \in 1..Len(v.entries)}
    IN  IF v.k \notin {"array", "object"} THEN 0
        ELSE IF below = {} THEN 1
        ELSE 1 + CHOOSE m \in below : \A o \in below : o <= m

\* the nesting one decoder of the schema at every level of the data comes to
DepthBound(d, v) == Cardinality(Schema(d)) * (Depth(v) + 1)

GuardedSchemas ==
    {recursive("user"), Supplier("user"), recursive("users"), recursive("category"),
     recursive("tree"), recursive("text"),
     array(array(number)), keyValuePairs(nullable(number))}

\* unions of unions, whose messages quote one another
NestedUnions == {nullable(nullable(string)), oneOf(<<number, nullable(string)>>)}

UnguardedSchemas ==
    {recursive("loop"), recursive("maybe"), Supplier("maybe"),
     array(recursive("loop")), tuple(<<string, recursive("maybe")>>),
     object([optional |-> <<Field(K_a, recursive("loop"))>>])}

Trees == {Arr(<<>>), Arr(<<Arr(<<>>)>>), Arr(<<Arr(<<>>), Arr(<<Arr(<<>>)>>)>>)}

ShallowInputs ==
    {Null, S_a, Num(1), Arr(<<>>), Arr(<<S_a>>), Arr(<<S_a, Num(1)>>),
     Obj(<<Entry(K_a, Num(1))>>)}

DescentInputs ==
    ShallowInputs \cup {Arr(<<Arr(<<Num(1)>>)>>)}
    \cup Trees \cup Nested("user", MaxDepth - 1) \cup Nested("category", 1)

InitDescent ==
    /\ \/ /\ subject \in GuardedSchemas
          /\ input \in DescentInputs
          /\ \E limit \in 1..MaxRoom \cup {StackLimit} :
                 stack = [limit |-> limit, deepest |-> 0]
       \/ /\ subject \in NestedUnions
          /\ input \in ShallowInputs
          /\ \E limit \in 1..MaxRoom \cup {StackLimit} :
                 stack = [limit |-> limit, deepest |-> 0]
       \/ /\ subject \in UnguardedSchemas
          /\ input \in ShallowInputs
          /\ \E limit \in 1..MaxRoom : stack = [limit |-> limit, deepest |-> 0]
    /\ wraps = <<>>
    /\ method = "none"
    /\ result = NoResult
    /\ calls = <<>>
    /\ lastIndex = [re \in RegExps |-> 0]

SpecDescent == InitDescent /\ [][NextCall]_vars

====
